---- MODULE Spec2Model ----
(***************************************************************************)
(* State-machine model of shogun's CFactorGraphModel                       *)
(* (src/shogun/structure/FactorGraphModel.cpp): the factor-type registry,  *)
(* the parameter map m_w_map, the global weight cache m_w_cache and the    *)
(* operations that move weights between the factor types and the global    *)
(* vector.                                                                 *)
(*                                                                         *)
(* Vectors are TLA+ sequences: element i of an SGVector (0-based) is       *)
(* element i+1 of the sequence.  A failed REQUIRE / ASSERT raises an       *)
(* exception: the call ends there, everything it wrote before stays        *)
(* written, and the model object can be used again afterwards.             *)
(***************************************************************************)
EXTENDS Integers, Sequences, FiniteSets, TLC

VARIABLES
    m_factor_types, \* registry: sequence of factor-type objects (handles)
    m_w_map,        \* parameter map: one type id per global slot
    m_w_cache,      \* cached global weight vector
    ftype_w,        \* local weight vector m_w of every factor-type object
    m_inf_type,     \* inference mode chosen at construction
    lastOp,         \* the call just made: name, arguments, outcome
    ret,            \* what the last call returned
    no_failure      \* history: no call so far has raised an exception

vars == <<m_factor_types, m_w_map, m_w_cache, ftype_w, m_inf_type, lastOp, ret,
          no_failure>>

(* ------------------------------ bounds -------------------------------- *)

\* weights are drawn from 0..MaxW
MaxW == 1

WVals == 0 .. MaxW

(* ------------------------ factor-type objects -------------------------- *)

\* The factor-type objects a caller creates.  tC carries the id of tA (a
\* duplicate registration), tZ has no parameters (w_dim = 0).
FTypes == {"tA", "tB", "tC", "tZ"}

\* the same with tD, a unary type whose factors carry two features
FTypeObjects == FTypes \cup {"tD"}

get_type_id(ft) ==
    CASE ft = "tA" -> 1
      [] ft = "tB" -> 2
      [] ft = "tC" -> 1
      [] ft = "tZ" -> 3
      [] ft = "tD" -> 4

get_cardinalities(ft) ==
    CASE ft = "tA" -> <<2>>
      [] ft = "tB" -> <<2, 2>>
      [] ft = "tC" -> <<2, 2>>
      [] ft = "tZ" -> <<2>>
      [] ft = "tD" -> <<2>>

\* weights the objects are constructed with
initial_w(ft) ==
    CASE ft = "tA" -> <<1, 0>>
      [] ft = "tB" -> <<0, 1, 1, 0>>
      [] ft = "tC" -> <<1>>
      [] ft = "tZ" -> <<>>
      [] ft = "tD" -> <<0, 1, 0, 1>>

\* CFactorType::get_w() / get_w_dim(): the object's own vector and its size
get_w(fw, ft) == fw[ft]

get_w_dim(fw, ft) == Len(fw[ft])

\* ids a caller passes to del_factor_type
TypeIds == {get_type_id(ft) : ft \in FTypes}

\* the longest global vector any registry of these objects can have (tA
\* and tC share an id, so at most one of them is registered)
MaxDim == Len(initial_w("tA")) + Len(initial_w("tB"))

\* vectors a caller passes as w: for every length the ramps
\* k, k+1, k+2, ... (mod MaxW+1), so neighbouring slots differ
ramp(n, k) == [i \in 1 .. n |-> (i - 1 + k) % (MaxW + 1)]

WVectors == {ramp(n, k) : n \in 0 .. MaxDim, k \in WVals}

(* --------------------------- SGVector helpers -------------------------- *)

\* an SGVector holds its elements: the sequence, evaluated element by element
Vec(f) == f \o <<>>

\* SGVector<T>::equals: same length and element-wise equal
equals(a, b) ==
    /\ Len(a) = Len(b)
    /\ \A i \in 1 .. Len(a) : a[i] = b[i]

\* SGVector<T>::find(elem): the indices holding elem, ascending
find(v, elem) ==
    SelectSeq(Vec([i \in 1 .. Len(v) |-> i]), LAMBDA i : v[i] = elem)

\* SGVector<T>::resize_vector(n): the first min(n, len) elements stay, the
\* new ones (never read before they are written) hold garbage g
resize_vector(v, n, g) ==
    Vec([i \in 1 .. n |-> IF i <= Len(v) THEN v[i] ELSE g])

\* CDynamicObjectArray::delete_element(idx): later elements move down by one
delete_element(arr, idx) ==
    Vec([i \in 1 .. (Len(arr) - 1) |-> IF i < idx THEN arr[i] ELSE arr[i + 1]])

(* ------------------------------ getters -------------------------------- *)

\* get_params_mapping(ftype_id)
get_params_mapping(w_map, ftype_id) == find(w_map, ftype_id)

\* get_dim()
get_dim(w_map) == Len(w_map)

(* ---------------------------- fparams_to_w ----------------------------- *)

\* the inner loop of fparams_to_w for one type: m_w_cache[fw_map[wi]] = fw[wi]
scatter_one(cache, fw_map, fw) ==
    Vec([i \in 1 .. Len(cache) |->
        IF \E wi \in 1 .. Len(fw) : fw_map[wi] = i
        THEN fw[CHOOSE wi \in 1 .. Len(fw) : fw_map[wi] = i]
        ELSE cache[i]])

\* the loop of fparams_to_w over the registry from element fi on; stops at
\* the first type whose mapping and weights differ in size (the ASSERT)
RECURSIVE scatter_loop(_, _, _, _, _)
scatter_loop(types, w_map, fw, cache, fi) ==
    IF fi > Len(types) THEN [cache |-> cache, ok |-> TRUE]
    ELSE LET ft     == types[fi]
             fw_map == get_params_mapping(w_map, get_type_id(ft))
         IN  IF Len(fw_map) # Len(get_w(fw, ft))
             THEN [cache |-> cache, ok |-> FALSE]
             ELSE scatter_loop(types, w_map, fw,
                               scatter_one(cache, fw_map, get_w(fw, ft)), fi + 1)

\* sum of get_w_dim over the registry (the local "offset" of both loops)
RECURSIVE offset_sum(_, _, _)
offset_sum(types, fw, fi) ==
    IF fi > Len(types) THEN 0
    ELSE get_w_dim(fw, types[fi]) + offset_sum(types, fw, fi + 1)

\* mutant: the vector handed back is a copy taken before the loop
do_fparams_to_w_returns_early(types, w_map, fw, cache, g) ==
    LET resized == IF Len(cache) # get_dim(w_map)
                   THEN resize_vector(cache, get_dim(w_map), g)
                   ELSE cache
        looped  == scatter_loop(types, w_map, fw, resized, 1)
    IN  [cache |-> looped.cache,
         ret   |-> resized,
         ok    |-> looped.ok /\ offset_sum(types, fw, 1) = Len(looped.cache)]

\* fparams_to_w(): the cache it leaves, the vector it returns (m_w_cache)
\* and whether it returned normally
do_fparams_to_w(types, w_map, fw, cache, g) ==
    LET resized == IF Len(cache) # get_dim(w_map)
                   THEN resize_vector(cache, get_dim(w_map), g)
                   ELSE cache
        looped  == scatter_loop(types, w_map, fw, resized, 1)
    IN  [cache |-> looped.cache,
         ret   |-> looped.cache,
         ok    |-> looped.ok /\ offset_sum(types, fw, 1) = Len(looped.cache)]

(* --------------------------- add_factor_type --------------------------- *)

\* mutant: the REQUIRE lets a type without parameters through
add_precondition_nonneg(fw, ft) == get_w_dim(fw, ft) >= 0

\* the REQUIRE at the head of add_factor_type
add_precondition(fw, ft) == get_w_dim(fw, ft) > 0

\* mutant: the scan compares the objects, not their ids
has_been_added_by_object(types, ft) ==
    \E fi \in 1 .. Len(types) : ft = types[fi]

\* the scan of add_factor_type for a registered type with the same id
has_been_added(types, ft) ==
    \E fi \in 1 .. Len(types) : get_type_id(ft) = get_type_id(types[fi])

\* mutant: the second loop starts one slot late and leaves the map short
extend_w_map_short(w_map, id, w_dim) ==
    Vec([mi \in 1 .. (Len(w_map) + w_dim - 1) |->
        IF mi <= Len(w_map) THEN w_map[mi] ELSE id])

\* the new parameter map: the old one, then w_dim copies of the id
extend_w_map(w_map, id, w_dim) ==
    Vec([mi \in 1 .. (Len(w_map) + w_dim) |->
        IF mi <= Len(w_map) THEN w_map[mi] ELSE id])

\* the record of a call: its name, its arguments (those it does not take
\* are "-", 0, <<>>, FALSE) and how it ended: "ok", "noop" (returned early,
\* nothing done) or "fail" (an exception)
CallRecord(name, ft, id, w, feat_idx, training, status) ==
    [name |-> name, ftype |-> ft, id |-> id, w |-> w, feat_idx |-> feat_idx,
     training |-> training, status |-> status]

Call(name, ft, id, w, status) == CallRecord(name, ft, id, w, 0, FALSE, status)

add_factor_type(ft) ==
    /\ UNCHANGED <<ftype_w, m_inf_type>>
    /\ IF ~add_precondition(ftype_w, ft)
       THEN /\ lastOp' = Call("add_factor_type", ft, get_type_id(ft), <<>>, "fail")
            /\ ret' = <<>>
            /\ no_failure' = FALSE
            /\ UNCHANGED <<m_factor_types, m_w_map, m_w_cache>>
       ELSE IF has_been_added(m_factor_types, ft)
       THEN /\ lastOp' = Call("add_factor_type", ft, get_type_id(ft), <<>>, "noop")
            /\ ret' = <<>>
            /\ UNCHANGED <<m_factor_types, m_w_map, m_w_cache, no_failure>>
       ELSE \E g \in WVals :
            LET new_map   == extend_w_map(m_w_map, get_type_id(ft),
                                          get_w_dim(ftype_w, ft))
                new_types == Append(m_factor_types, ft)
                r         == do_fparams_to_w(new_types, new_map, ftype_w,
                                             m_w_cache, g)
            IN  /\ m_w_map' = new_map
                /\ m_factor_types' = new_types
                /\ m_w_cache' = r.cache
                /\ ret' = <<>>
                /\ lastOp' = Call("add_factor_type", ft, get_type_id(ft), <<>>,
                                  IF r.ok THEN "ok" ELSE "fail")
                /\ no_failure' = (no_failure /\ r.ok)

(* --------------------------- del_factor_type --------------------------- *)

\* mutant: the scan takes the id for a position in the registry
del_lookup_by_position(types, ftype_id) ==
    IF ftype_id \in 1 .. Len(types) THEN ftype_id ELSE 0

\* index of the first registered type with this id, 0 when there is none
del_lookup(types, ftype_id) ==
    IF \E fi \in 1 .. Len(types) : get_type_id(types[fi]) = ftype_id
    THEN CHOOSE fi \in 1 .. Len(types) :
            /\ get_type_id(types[fi]) = ftype_id
            /\ \A fj \in 1 .. (fi - 1) : get_type_id(types[fj]) # ftype_id
    ELSE 0

\* mutant: the test of the copy loop is inverted
filter_w_map_inverted(w_map_cp, ftype_id) ==
    SelectSeq(w_map_cp, LAMBDA x : x = ftype_id)

\* the slots of the old map that are kept, in order
filter_w_map(w_map_cp, ftype_id) ==
    SelectSeq(w_map_cp, LAMBDA x : x # ftype_id)

\* mutant: the removed block is taken to be the first w_dim slots
rebuild_w_map_drop_front(w_map_cp, ftype_id, w_dim) ==
    SubSeq(w_map_cp, w_dim + 1, Len(w_map_cp))

\* m_w_map after the resize and the copy loop: the kept slots are written
\* from the front; a slot the loop does not reach keeps what it held
rebuild_w_map(w_map_cp, ftype_id, w_dim) ==
    LET kept == filter_w_map(w_map_cp, ftype_id)
    IN  Vec([i \in 1 .. (Len(w_map_cp) - w_dim) |->
            IF i <= Len(kept) THEN kept[i] ELSE w_map_cp[i]])

del_factor_type(ftype_id) ==
    LET fi    == del_lookup(m_factor_types, ftype_id)
        w_dim == IF fi = 0 THEN 0 ELSE get_w_dim(ftype_w, m_factor_types[fi])
    IN  /\ UNCHANGED <<ftype_w, m_inf_type, m_w_cache>>
        /\ ret' = <<>>
        /\ IF w_dim = 0
           THEN /\ m_factor_types' =
                      IF fi = 0 THEN m_factor_types
                      ELSE delete_element(m_factor_types, fi)
                /\ lastOp' = Call("del_factor_type", "-", ftype_id, <<>>, "fail")
                /\ no_failure' = FALSE
                /\ UNCHANGED m_w_map
           ELSE LET ind_ok == Len(filter_w_map(m_w_map, ftype_id))
                                = Len(m_w_map) - w_dim
                IN  /\ m_factor_types' = delete_element(m_factor_types, fi)
                    /\ m_w_map' = rebuild_w_map(m_w_map, ftype_id, w_dim)
                    /\ lastOp' = Call("del_factor_type", "-", ftype_id, <<>>,
                                      IF ind_ok THEN "ok" ELSE "fail")
                    /\ no_failure' = (no_failure /\ ind_ok)

(* ------------------------ fparams_to_w (the call) ---------------------- *)

fparams_to_w ==
    \E g \in WVals :
    LET r == do_fparams_to_w(m_factor_types, m_w_map, ftype_w, m_w_cache, g)
    IN  /\ m_w_cache' = r.cache
        /\ ret' = IF r.ok THEN r.ret ELSE <<>>
        /\ lastOp' = Call("fparams_to_w", "-", 0, <<>>,
                          IF r.ok THEN "ok" ELSE "fail")
        /\ no_failure' = (no_failure /\ r.ok)
        /\ UNCHANGED <<m_factor_types, m_w_map, ftype_w, m_inf_type>>

(* ----------------------------- w_to_fparams ---------------------------- *)

\* the vector w_to_fparams hands to set_w for one type:
\* fw[wi] = m_w_cache[fw_map[wi]]
gather(cache, fw_map, w_dim) ==
    Vec([wi \in 1 .. w_dim |-> cache[fw_map[wi]]])

\* the local weights after the loop of w_to_fparams: every registered type
\* gets its slots of the cache, every other object keeps its vector
propagate(types, w_map, fw, cache) ==
    [ft \in DOMAIN fw |->
        IF \E fi \in 1 .. Len(types) : types[fi] = ft
        THEN gather(cache, get_params_mapping(w_map, get_type_id(ft)),
                    get_w_dim(fw, ft))
        ELSE fw[ft]]

\* the set_w calls of the loop of w_to_fparams, in registry order
set_w_calls(types, w_map, fw, cache) ==
    Vec([fi \in 1 .. Len(types) |->
        [ftype |-> types[fi],
         w     |-> gather(cache, get_params_mapping(w_map, get_type_id(types[fi])),
                          get_w_dim(fw, types[fi]))]])

\* mutant: no early return when w equals the cache
do_w_to_fparams_no_dirty_check(types, w_map, fw, cache, w) ==
    IF Len(w) # Len(cache)
    THEN [cache |-> cache, fw |-> fw, set_w |-> <<>>, status |-> "fail"]
    ELSE [cache  |-> w,
          fw     |-> propagate(types, w_map, fw, w),
          set_w  |-> set_w_calls(types, w_map, fw, w),
          status |-> IF offset_sum(types, fw, 1) = Len(w) THEN "ok" ELSE "fail"]

\* w_to_fparams(w): what it leaves behind, the set_w calls it made and how
\* it ended
do_w_to_fparams(types, w_map, fw, cache, w) ==
    IF equals(cache, w)
    THEN [cache |-> cache, fw |-> fw, set_w |-> <<>>, status |-> "noop"]
    ELSE IF Len(w) # Len(cache)
    THEN [cache |-> cache, fw |-> fw, set_w |-> <<>>, status |-> "fail"]
    ELSE [cache  |-> w,
          fw     |-> propagate(types, w_map, fw, w),
          set_w  |-> set_w_calls(types, w_map, fw, w),
          status |-> IF offset_sum(types, fw, 1) = Len(w) THEN "ok" ELSE "fail"]

w_to_fparams(w) ==
    LET r == do_w_to_fparams(m_factor_types, m_w_map, ftype_w, m_w_cache, w)
    IN  /\ m_w_cache' = r.cache
        /\ ftype_w' = r.fw
        /\ ret' = r.set_w
        /\ lastOp' = Call("w_to_fparams", "-", 0, w, r.status)
        /\ no_failure' = (no_failure /\ r.status # "fail")
        /\ UNCHANGED <<m_factor_types, m_w_map, m_inf_type>>

(* ------------- the structure instances (external collaborators) -------- *)

Factor(ft, vs, d) == [ftype |-> ft, vars |-> vs, data |-> d]

\* m_features: two factor graphs over two binary variables.  Sample 1 is a
\* tree (two unary factors and one pairwise factor); in sample 2 two
\* pairwise factors join the same two variables, which closes a cycle.
Samples ==
    << [num_vars |-> 2,
        factors  |-> << Factor("tA", <<1>>, <<1>>),
                        Factor("tA", <<2>>, <<1>>),
                        Factor("tB", <<1, 2>>, <<1>>) >>],
       [num_vars |-> 2,
        factors  |-> << Factor("tA", <<1>>, <<1>>),
                        Factor("tB", <<1, 2>>, <<1>>),
                        Factor("tB", <<2, 1>>, <<1>>) >>] >>

\* m_labels: the ground-truth states and loss weights of every sample
Labels ==
    << [data |-> <<0, 1>>, loss_weights |-> <<1, 1>>],
       [data |-> <<1, 0>>, loss_weights |-> <<1, 2>>] >>

\* every assignment of states to the variables of a graph
Assignments(fg) == [1 .. fg.num_vars -> {0, 1}]

RECURSIVE SumSeq(_)
SumSeq(s) == IF Len(s) = 0 THEN 0 ELSE Head(s) + SumSeq(Tail(s))

RECURSIVE cumprod_cards(_, _)
cumprod_cards(ft, k) ==
    IF k <= 1 THEN 1 ELSE get_cardinalities(ft)[k - 1] * cumprod_cards(ft, k - 1)

\* CTableFactorType::get_num_assignments()
get_num_assignments(ft) ==
    cumprod_cards(ft, Len(get_cardinalities(ft)) + 1)

\* CTableFactorType::index_from_universe_assignment(states, vars): the row
\* of the energy table, the factor's first variable running fastest
index_from_universe_assignment(ft, states, fvars) ==
    SumSeq([k \in 1 .. Len(fvars) |-> states[fvars[k]] * cumprod_cards(ft, k)])

\* CTableFactorType::state_from_index(ei, vi)
state_from_index(ft, ei, vi) ==
    (ei \div cumprod_cards(ft, vi)) % get_cardinalities(ft)[vi]

\* CFactorGraph::is_tree_graph() once the components are connected: a
\* connected graph is a tree when it has one edge less than nodes
is_tree_graph(fg) ==
    SumSeq([fi \in 1 .. Len(fg.factors) |-> Len(fg.factors[fi].vars)])
        = fg.num_vars + Len(fg.factors) - 1

\* CFactorGraph::compute_energies(): one table per factor, row ei (kept at
\* position ei + 1) being the factor's data weighted by row ei of its
\* type's weights
compute_energies(fg, fw) ==
    Vec([fi \in 1 .. Len(fg.factors) |->
        LET fac == fg.factors[fi]
            ds  == Len(fac.data)
        IN  Vec([row \in 1 .. get_num_assignments(fac.ftype) |->
                SumSeq([k \in 1 .. ds |->
                    get_w(fw, fac.ftype)[(row - 1) * ds + k] * fac.data[k]])])])

\* CFactorGraph::evaluate_energy(states): the sum of the factors' table rows
evaluate_energy(fg, energies, states) ==
    SumSeq([fi \in 1 .. Len(fg.factors) |->
        energies[fi][index_from_universe_assignment(
            fg.factors[fi].ftype, states, fg.factors[fi].vars) + 1]])

\* the factor that carries the loss of variable v: the first one holding it
loss_owner(fg, v) ==
    CHOOSE fi \in 1 .. Len(fg.factors) :
        /\ \E vi \in 1 .. Len(fg.factors[fi].vars) : fg.factors[fi].vars[vi] = v
        /\ \A fj \in 1 .. (fi - 1) :
              \A vj \in 1 .. Len(fg.factors[fj].vars) : fg.factors[fj].vars[vj] # v

\* CFactorGraph::loss_augmentation(y_truth): every row that gives a variable
\* a state other than the truth loses that variable's loss weight, once
loss_augmentation(fg, energies, y_truth) ==
    Vec([fi \in 1 .. Len(fg.factors) |->
        LET fac == fg.factors[fi]
        IN  Vec([row \in 1 .. Len(energies[fi]) |->
                energies[fi][row]
                - SumSeq([vi \in 1 .. Len(fac.vars) |->
                    IF /\ loss_owner(fg, fac.vars[vi]) = fi
                       /\ state_from_index(fac.ftype, row - 1, vi)
                              # y_truth.data[fac.vars[vi]]
                    THEN y_truth.loss_weights[fac.vars[vi]]
                    ELSE 0])])])

\* CMAPInference::inference() + get_structured_outputs(): a labelling of
\* least energy where the method is exact (max-product on a tree, graph
\* cut); the approximate methods may return any labelling
map_inference(fg, energies, inf_type) ==
    IF inf_type \in {"TREE_MAX_PROD", "GRAPH_CUT"}
    THEN LET scored == {<<y, evaluate_energy(fg, energies, y)>> :
                            y \in Assignments(fg)}
         IN  {p[1] : p \in {p \in scored : \A q \in scored : p[2] <= q[2]}}
    ELSE Assignments(fg)

(* ----------------------- get_joint_feature_vector ---------------------- *)

\* the two ASSERTs of get_joint_feature_vector for one factor
jfv_factor_ok(w_map, fw, fac) ==
    LET fmap == get_params_mapping(w_map, get_type_id(fac.ftype))
    IN  /\ Len(fmap) = get_w_dim(fw, fac.ftype)
        /\ Len(fmap) = Len(fac.data) * get_num_assignments(fac.ftype)

\* mutant: the row of the assignment is not scaled by the data size
jfv_contribution_row_unscaled(w_map, fac, states, j) ==
    LET fmap == get_params_mapping(w_map, get_type_id(fac.ftype))
        ds   == Len(fac.data)
        ei   == index_from_universe_assignment(fac.ftype, states, fac.vars)
    IN  SumSeq([di \in 1 .. ds |->
            IF fmap[ei + di] = j THEN fac.data[di] ELSE 0])

\* what one factor adds to slot j of psi (j is 1-based)
jfv_contribution(w_map, fac, states, j) ==
    LET fmap == get_params_mapping(w_map, get_type_id(fac.ftype))
        ds   == Len(fac.data)
        ei   == index_from_universe_assignment(fac.ftype, states, fac.vars)
    IN  SumSeq([di \in 1 .. ds |->
            IF fmap[ei * ds + di] = j THEN fac.data[di] ELSE 0])

\* get_joint_feature_vector(feat_idx, y): psi, or the failure of an ASSERT
get_joint_feature_vector(fg, w_map, fw, states) ==
    IF \E fi \in 1 .. Len(fg.factors) : ~jfv_factor_ok(w_map, fw, fg.factors[fi])
    THEN [ok |-> FALSE, psi |-> <<>>]
    ELSE [ok  |-> TRUE,
          psi |-> Vec([j \in 1 .. get_dim(w_map) |->
                      (-1) * SumSeq([fi \in 1 .. Len(fg.factors) |->
                          jfv_contribution(w_map, fg.factors[fi], states, j)])])]

\* the samples of the features with one more: a single variable with one
\* factor of type tD and data [1,1]
JfvSamples ==
    Samples \o <<[num_vars |-> 1, factors |-> <<Factor("tD", <<1>>, <<1, 1>>)>>]>>

get_joint_feature_vector_call(feat_idx, y) ==
    LET r == get_joint_feature_vector(JfvSamples[feat_idx], m_w_map, ftype_w, y)
    IN  /\ ret' = [psi |-> r.psi, y |-> y]
        /\ lastOp' = CallRecord("get_joint_feature_vector", "-", 0, <<>>,
                                feat_idx, FALSE, IF r.ok THEN "ok" ELSE "fail")
        /\ no_failure' = (no_failure /\ r.ok)
        /\ UNCHANGED <<m_factor_types, m_w_map, m_w_cache, ftype_w, m_inf_type>>

(* ------------------------------ delta_loss ----------------------------- *)

\* mutant: every mismatch counts 1, whatever its loss weight
delta_loss_unweighted(y_truth, s_pred) ==
    SumSeq([si \in 1 .. Len(s_pred) |->
        IF s_pred[si] # y_truth.data[si] THEN 1 ELSE 0])

\* the loop of delta_loss(y1, y2), on sequences of equal length
delta_loss(y_truth, s_pred) ==
    SumSeq([si \in 1 .. Len(s_pred) |->
        IF s_pred[si] # y_truth.data[si] THEN y_truth.loss_weights[si] ELSE 0])

\* longest label sequence a caller compares
MaxLabelLen == 2

\* the observations a caller passes to delta_loss: state sequences with one
\* loss weight per position
Observations ==
    UNION {{[data |-> Vec(d), loss_weights |-> Vec(lw)] :
                d \in [1 .. n -> {0, 1}], lw \in [1 .. n -> WVals]} :
           n \in 0 .. MaxLabelLen}

\* delta_loss(y1, y2): the ASSERT on the two lengths, then the loop
do_delta_loss(y1, y2) ==
    IF Len(y2.data) # Len(y1.data)
    THEN [ok |-> FALSE, loss |-> 0]
    ELSE [ok |-> TRUE, loss |-> delta_loss(y1, y2.data)]

delta_loss_call(y1, y2) ==
    LET r == do_delta_loss(y1, y2)
    IN  /\ ret' = [y1 |-> y1, y2 |-> y2, loss |-> r.loss]
        /\ lastOp' = Call("delta_loss", "-", 0, <<>>,
                          IF r.ok THEN "ok" ELSE "fail")
        /\ no_failure' = (no_failure /\ r.ok)
        /\ UNCHANGED <<m_factor_types, m_w_map, m_w_cache, ftype_w, m_inf_type>>

(* -------------------------------- argmax ------------------------------- *)

\* mutant: the tree check comes before connect_components
argmax_prepare_log_tree_check_first(inf_type) ==
    IF inf_type = "TREE_MAX_PROD"
    THEN <<"is_tree_graph", "connect_components">>
    ELSE <<"connect_components">>

\* the calls on collaborators that argmax makes before it updates the
\* factor parameters
argmax_prepare_log(inf_type) ==
    IF inf_type = "TREE_MAX_PROD"
    THEN <<"connect_components", "is_tree_graph">>
    ELSE <<"connect_components">>

\* mutant: no tree check
argmax_tree_ok_unchecked(inf_type, fg) == TRUE

\* the tree check at the head of argmax
argmax_tree_ok(inf_type, fg) ==
    inf_type = "TREE_MAX_PROD" => is_tree_graph(fg)

\* mutant: the energies are loss-augmented whatever training says
argmax_augment_always(training, fg, energies, y_truth) ==
    [energies |-> loss_augmentation(fg, energies, y_truth),
     log      |-> <<"loss_augmentation">>]

\* the step of argmax between the ground-truth energy and inference: when
\* training it calls loss_augmentation, otherwise it leaves the energies
argmax_augment(training, fg, energies, y_truth) ==
    IF training
    THEN [energies |-> loss_augmentation(fg, energies, y_truth),
          log      |-> <<"loss_augmentation">>]
    ELSE [energies |-> energies, log |-> <<>>]

\* mutant: the two energies are subtracted the other way round
argmax_score_swapped(energy_gt, l_energy_pred) == l_energy_pred - energy_gt

\* ret->score: the ground-truth energy less the energy of the prediction
argmax_score(energy_gt, l_energy_pred) == energy_gt - l_energy_pred

NoResult == [argmax |-> <<>>, psi_truth |-> <<>>, psi_pred |-> <<>>,
             score |-> 0, delta |-> 0, log |-> <<>>]

\* argmax(w, feat_idx, training) up to the call of inference: the cache and
\* weights it leaves, whether it got that far ("ok") or failed, the
\* ground-truth part of the result, the energies inference will see and
\* the calls made so far
argmax_until_inference(types, w_map, fw, cache, inf_type, w, feat_idx, training) ==
    LET fg      == Samples[feat_idx]
        y_truth == Labels[feat_idx]
        log1    == argmax_prepare_log(inf_type)
    IN  IF ~argmax_tree_ok(inf_type, fg)
        THEN [cache |-> cache, fw |-> fw, status |-> "fail", log |-> log1,
              psi_truth |-> <<>>, energy_gt |-> 0, energies |-> <<>>]
        ELSE
        LET p    == do_w_to_fparams(types, w_map, fw, cache, w)
            log2 == log1 \o <<"w_to_fparams">>
        IN  IF p.status = "fail"
            THEN [cache |-> p.cache, fw |-> p.fw, status |-> "fail", log |-> log2,
                  psi_truth |-> <<>>, energy_gt |-> 0, energies |-> <<>>]
            ELSE
            LET e0        == compute_energies(fg, p.fw)
                psi_truth == get_joint_feature_vector(fg, w_map, p.fw, y_truth.data)
                log3      == log2 \o <<"compute_energies", "get_joint_feature_vector">>
            IN  IF ~psi_truth.ok
                THEN [cache |-> p.cache, fw |-> p.fw, status |-> "fail",
                      log |-> log3,
                      psi_truth |-> <<>>, energy_gt |-> 0, energies |-> <<>>]
                ELSE
                LET aug == argmax_augment(training, fg, e0, y_truth)
                IN  [cache     |-> p.cache,
                     fw        |-> p.fw,
                     status    |-> "ok",
                     log       |-> log3 \o <<"evaluate_energy">> \o aug.log,
                     psi_truth |-> psi_truth.psi,
                     energy_gt |-> evaluate_energy(fg, e0, y_truth.data),
                     energies  |-> aug.energies]

\* the rest of argmax once inference has answered y_star: the result set
argmax_result(w_map, pre, feat_idx, y_star) ==
    LET fg      == Samples[feat_idx]
        y_truth == Labels[feat_idx]
    IN  [argmax    |-> y_star,
         psi_truth |-> pre.psi_truth,
         psi_pred  |-> get_joint_feature_vector(fg, w_map, pre.fw, y_star).psi,
         score     |-> argmax_score(pre.energy_gt,
                                    evaluate_energy(fg, pre.energies, y_star)),
         delta     |-> delta_loss(y_truth, y_star),
         log       |-> pre.log \o <<"inference", "get_joint_feature_vector",
                                    "evaluate_energy", "delta_loss">>]

argmax(w, feat_idx, training) ==
    LET pre == argmax_until_inference(m_factor_types, m_w_map, ftype_w, m_w_cache,
                                      m_inf_type, w, feat_idx, training)
    IN  /\ m_w_cache' = pre.cache
        /\ ftype_w' = pre.fw
        /\ lastOp' = CallRecord("argmax", "-", 0, w, feat_idx, training, pre.status)
        /\ no_failure' = (no_failure /\ pre.status # "fail")
        /\ UNCHANGED <<m_factor_types, m_w_map, m_inf_type>>
        /\ IF pre.status = "fail"
           THEN ret' = [NoResult EXCEPT !.log = pre.log]
           ELSE \E y_star \in map_inference(Samples[feat_idx], pre.energies,
                                            m_inf_type) :
                    ret' = argmax_result(m_w_map, pre, feat_idx, y_star)

(* ---------------------------- init_primal_opt -------------------------- *)

\* the values of a box bound: -CMath::INFTY, 0, CMath::INFTY
NegInf == "-inf"

Zero == "0"

PosInf == "+inf"

\* the vectors a caller passes as lb and ub: fresh empty ones, or vectors
\* that still hold the bounds of an earlier problem
BoundVectors == {<<>>, <<Zero, Zero>>}

\* the regularization constants a caller passes
Regularizations == {MaxW + 1}

\* SGVector<T>::fill_vector on a vector of length n
fill_vector(n, v) == Vec([i \in 1 .. n |-> v])

\* the test for a pairwise factor type over two binary variables
is_pairwise_binary(ft) ==
    /\ Len(get_cardinalities(ft)) = 2
    /\ get_cardinalities(ft)[1] = 2
    /\ get_cardinalities(ft)[2] = 2

\* mutant: the equality constraints land on w[0] and w[1]
submodular_bounds_first_two(b, fw_map) ==
    [lb |-> [b.lb EXCEPT ![fw_map[1]] = Zero, ![fw_map[2]] = Zero,
                         ![fw_map[4]] = Zero, ![fw_map[3]] = Zero],
     ub |-> [b.ub EXCEPT ![fw_map[1]] = Zero, ![fw_map[2]] = Zero]]

\* the six assignments that constrain one pairwise binary type:
\* w[0] = 0, w[3] = 0, w[1] >= 0, w[2] >= 0
submodular_bounds(b, fw_map) ==
    [lb |-> [b.lb EXCEPT ![fw_map[1]] = Zero, ![fw_map[4]] = Zero,
                         ![fw_map[2]] = Zero, ![fw_map[3]] = Zero],
     ub |-> [b.ub EXCEPT ![fw_map[1]] = Zero, ![fw_map[4]] = Zero]]

\* the loop of the GRAPH_CUT case over the registry from element fi on;
\* stops at the first pairwise binary type that fails the REQUIRE or ASSERT
RECURSIVE graph_cut_loop(_, _, _, _, _)
graph_cut_loop(types, w_map, fw, b, fi) ==
    IF fi > Len(types) THEN [lb |-> b.lb, ub |-> b.ub, ok |-> TRUE]
    ELSE LET ft     == types[fi]
             fw_map == get_params_mapping(w_map, get_type_id(ft))
         IN  IF ~is_pairwise_binary(ft)
             THEN graph_cut_loop(types, w_map, fw, b, fi + 1)
             ELSE IF get_w_dim(fw, ft) # 4 \/ Len(fw_map) # Len(get_w(fw, ft))
             THEN [lb |-> b.lb, ub |-> b.ub, ok |-> FALSE]
             ELSE graph_cut_loop(types, w_map, fw,
                                 submodular_bounds(b, fw_map), fi + 1)

\* init_primal_opt(regularization, A, a, B, b, lb, ub, C): the matrix C
\* (identity of size get_dim() times regularization), the caller's lb and ub
\* as the call leaves them, and whether it returned normally
do_init_primal_opt(types, w_map, fw, inf_type, regularization, lb, ub) ==
    LET C     == [size |-> get_dim(w_map), scale |-> regularization]
        dim_w == get_dim(w_map)
    IN  IF inf_type = "GRAPH_CUT"
        THEN LET r == graph_cut_loop(types, w_map, fw,
                          [lb |-> fill_vector(dim_w, NegInf),
                           ub |-> fill_vector(dim_w, PosInf)], 1)
             IN  [C |-> C, lb |-> r.lb, ub |-> r.ub, ok |-> r.ok]
        ELSE [C |-> C, lb |-> lb, ub |-> ub, ok |-> TRUE]

init_primal_opt(regularization, lb, ub) ==
    LET r == do_init_primal_opt(m_factor_types, m_w_map, ftype_w, m_inf_type,
                                regularization, lb, ub)
    IN  /\ ret' = [C |-> r.C, lb |-> r.lb, ub |-> r.ub,
                   lb_in |-> lb, ub_in |-> ub]
        /\ lastOp' = Call("init_primal_opt", "-", 0, <<>>,
                          IF r.ok THEN "ok" ELSE "fail")
        /\ no_failure' = (no_failure /\ r.ok)
        /\ UNCHANGED <<m_factor_types, m_w_map, m_w_cache, ftype_w, m_inf_type>>

(* --------------------------- the state machine ------------------------- *)

InfTypes == {"TREE_MAX_PROD", "LOOPY_MAX_PROD", "LP_RELAXATION",
             "TRWS_MAX_PROD", "GEMPLP", "GRAPH_CUT"}

\* the state a constructor leaves, with this inference mode
InitWith(inf_type) ==
    /\ m_factor_types = <<>>
    /\ m_w_map = <<>>
    /\ m_w_cache = <<>>
    /\ ftype_w = [ft \in FTypeObjects |-> initial_w(ft)]
    /\ m_inf_type = inf_type
    /\ lastOp = Call("init", "-", 0, <<>>, "ok")
    /\ ret = <<>>
    /\ no_failure = TRUE

\* CFactorGraphModel(): init() sets TREE_MAX_PROD
Init == InitWith("TREE_MAX_PROD")

\* CFactorGraphModel(features, labels, inf_type, verbose), with one mode of
\* each kind argmax tells apart: max-product on trees (tree check, exact),
\* graph cut (exact), loopy max-product (approximate, as are LP_RELAXATION,
\* TRWS_MAX_PROD and GEMPLP, which no line of argmax distinguishes from it)
ArgmaxInfTypes == {"TREE_MAX_PROD", "GRAPH_CUT", "LOOPY_MAX_PROD"}

InitArgmax == \E inf_type \in ArgmaxInfTypes : InitWith(inf_type)

\* CFactorGraphModel(features, labels, inf_type, verbose), any mode
InitAnyInfType == \E inf_type \in InfTypes : InitWith(inf_type)

AddFactorType == \E ft \in FTypes : add_factor_type(ft)

DelFactorType == \E id \in TypeIds : del_factor_type(id)

FparamsToW == fparams_to_w

WToFparams == \E w \in WVectors : w_to_fparams(w)

Argmax ==
    \E w \in WVectors, feat_idx \in DOMAIN Samples, training \in BOOLEAN :
        argmax(w, feat_idx, training)

\* vectors a caller passes as w when the inference mode is what varies: one
\* ramp of every length
RampVectors == {Vec(ramp(n, 0)) : n \in 0 .. MaxDim}

ArgmaxAnyMode ==
    \E w \in RampVectors, feat_idx \in DOMAIN Samples, training \in BOOLEAN :
        argmax(w, feat_idx, training)

\* the max-oracle in every inference mode
NextArgmaxModes ==
    \/ AddFactorType
    \/ ArgmaxAnyMode

SpecArgmaxModes == InitAnyInfType /\ [][NextArgmaxModes]_vars

\* the registry and the weight vector
Next ==
    \/ AddFactorType
    \/ DelFactorType
    \/ FparamsToW
    \/ WToFparams

Spec == Init /\ [][Next]_vars

InitPrimalOpt ==
    \E regularization \in Regularizations, lb \in BoundVectors, ub \in BoundVectors :
        init_primal_opt(regularization, lb, ub)

\* the constraints of the primal problem on a model built by registrations
\* and removals, in every inference mode
NextPrimal ==
    \/ AddFactorType
    \/ DelFactorType
    \/ InitPrimalOpt

SpecPrimal == InitAnyInfType /\ [][NextPrimal]_vars

\* a model as its constructor leaves it, and in ret the two observations
\* its caller is about to compare
InitLoss ==
    /\ m_factor_types = <<>>
    /\ m_w_map = <<>>
    /\ m_w_cache = <<>>
    /\ ftype_w = [ft \in FTypeObjects |-> initial_w(ft)]
    /\ m_inf_type = "TREE_MAX_PROD"
    /\ lastOp = Call("init", "-", 0, <<>>, "ok")
    /\ \E y1 \in Observations, y2 \in Observations :
            ret = [y1 |-> y1, y2 |-> y2, loss |-> 0]
    /\ no_failure = TRUE

DeltaLoss == delta_loss_call(ret.y1, ret.y2)

\* the loss on pairs of observations
NextLoss == DeltaLoss

SpecLoss == InitLoss /\ [][NextLoss]_vars

AddAnyFactorType == \E ft \in FTypeObjects : add_factor_type(ft)

GetJointFeatureVector ==
    \E feat_idx \in DOMAIN JfvSamples :
        \E y \in Assignments(JfvSamples[feat_idx]) :
            get_joint_feature_vector_call(feat_idx, Vec(y))

\* joint feature vectors on a model built by registrations and removals
NextJfv ==
    \/ AddAnyFactorType
    \/ DelFactorType
    \/ GetJointFeatureVector

SpecJfv == Init /\ [][NextJfv]_vars

\* the max-oracle on a model built by registrations
NextArgmax ==
    \/ AddFactorType
    \/ Argmax

SpecArgmax == InitArgmax /\ [][NextArgmax]_vars

(* ============================== the claims ============================= *)

\* the ids of the registered factor types
RegisteredIds == {get_type_id(m_factor_types[fi]) : fi \in 1 .. Len(m_factor_types)}

\* the sum of w_dim over the registered factor types
RegisteredDim ==
    SumSeq([fi \in 1 .. Len(m_factor_types) |-> Len(ftype_w[m_factor_types[fi]])])

\* w_dim copies of each registered id, in the order of the registry
RECURSIVE BlockMap(_)
BlockMap(fi) ==
    IF fi > Len(m_factor_types) THEN <<>>
    ELSE [k \in 1 .. Len(ftype_w[m_factor_types[fi]]) |->
              get_type_id(m_factor_types[fi])] \o BlockMap(fi + 1)

\* C1: after any sequence of add_factor_type / del_factor_type calls,
\* get_dim() is the sum of w_dim over the registered factor types and every
\* id in m_w_map is the id of a registered factor type.
C1_DimIsSumOfRegistered ==
    /\ get_dim(m_w_map) = RegisteredDim
    /\ \A mi \in 1 .. Len(m_w_map) : m_w_map[mi] \in RegisteredIds

\* C1 witness: a removal has left a registry that still holds a type
C1_Witness ==
    /\ lastOp.name = "del_factor_type"
    /\ lastOp.status = "ok"
    /\ Len(m_factor_types) > 0
    /\ get_dim(m_w_map) > 0

\* C2: in every state reached by successful calls the weight cache is as
\* long as the parameter map (the cache is rebuilt after every change of
\* the registry, removal included).
C2_CacheAsLongAsMap ==
    no_failure => Len(m_w_cache) = Len(m_w_map)

\* C3: for every w of length get_dim(), w_to_fparams(w) succeeds and a
\* following fparams_to_w() returns w, element for element.
C3_DistributeThenCollect ==
    no_failure =>
        \A w \in WVectors :
            Len(w) = get_dim(m_w_map) =>
                LET d == do_w_to_fparams(m_factor_types, m_w_map, ftype_w,
                                         m_w_cache, w)
                    c == do_fparams_to_w(m_factor_types, m_w_map, d.fw, d.cache, 0)
                IN  /\ d.status # "fail"
                    /\ c.ok
                    /\ c.cache = w

\* C6: the parameter map consists of contiguous blocks, one per registered
\* type, in the order of the registry, the block of type t having w_dim(t)
\* slots; also after a type was removed and added again.
C6_ContiguousBlocks == m_w_map = BlockMap(1)

\* C6 witness: tA was registered, received weights, was removed and has just
\* been added again behind tB
C6_Witness ==
    /\ lastOp.name = "add_factor_type"
    /\ lastOp.ftype = "tA"
    /\ lastOp.status = "ok"
    /\ m_factor_types = <<"tB", "tA">>
    /\ ftype_w["tA"] # initial_w("tA")

\* no two registered factor types carry the same id
NoDuplicateIds ==
    \A fi, fj \in 1 .. Len(m_factor_types) :
        get_type_id(m_factor_types[fi]) = get_type_id(m_factor_types[fj]) => fi = fj

\* C7: add_factor_type with a type whose id is already registered changes
\* neither the registry, the parameter map, the weight cache nor any local
\* weights, and the registry never holds two types with one id.
C7_DuplicateAddIsNoOp ==
    [][ /\ (/\ lastOp'.name = "add_factor_type"
            /\ lastOp'.id \in RegisteredIds)
           => UNCHANGED <<m_factor_types, m_w_map, m_w_cache, ftype_w>>
        /\ NoDuplicateIds' ]_vars

\* C7 witness: tC, which carries the id of the registered tA, was added and
\* the call returned early
C7_Witness ==
    /\ lastOp.name = "add_factor_type"
    /\ lastOp.ftype = "tC"
    /\ lastOp.status = "noop"
    /\ \E fi \in 1 .. Len(m_factor_types) : m_factor_types[fi] = "tA"

\* C8: del_factor_type(t) for a registered id t removes exactly that type
\* from the registry and leaves the previous parameter map without the
\* slots of t, the other slots in their order, w_dim(t) slots shorter.
C8_DelFiltersMap ==
    [][ (/\ lastOp'.name = "del_factor_type"
         /\ lastOp'.id \in RegisteredIds)
        => /\ lastOp'.status = "ok"
           /\ m_factor_types' =
                 SelectSeq(m_factor_types, LAMBDA ft : get_type_id(ft) # lastOp'.id)
           /\ Len(m_factor_types') = Len(m_factor_types) - 1
           /\ m_w_map' = SelectSeq(m_w_map, LAMBDA x : x # lastOp'.id)
           /\ \E fi \in 1 .. Len(m_factor_types) :
                 /\ get_type_id(m_factor_types[fi]) = lastOp'.id
                 /\ Len(m_w_map') =
                       Len(m_w_map) - Len(ftype_w[m_factor_types[fi]]) ]_vars

\* C8 witness: id 1 was removed from the map <<1, 1, 2, 2, 2, 2>>
C8_Witness ==
    /\ lastOp.name = "del_factor_type"
    /\ lastOp.id = 1
    /\ lastOp.status = "ok"
    /\ m_w_map = <<2, 2, 2, 2>>
    /\ m_factor_types = <<"tB">>

\* C9: del_factor_type(t) for an id t that is not registered fails and
\* leaves the registry, the parameter map and the weight cache as they were.
C9_DelUnknownFails ==
    [][ (/\ lastOp'.name = "del_factor_type"
         /\ lastOp'.id \notin RegisteredIds)
        => /\ lastOp'.status = "fail"
           /\ UNCHANGED <<m_factor_types, m_w_map, m_w_cache>> ]_vars

\* C9 witness: a removal failed on a registry that holds other types
C9_Witness ==
    /\ lastOp.name = "del_factor_type"
    /\ lastOp.status = "fail"
    /\ lastOp.id \notin RegisteredIds
    /\ Len(m_factor_types) > 0

\* C10: add_factor_type with a type whose w_dim <= 0 fails before any state
\* is touched: registry, parameter map and weight cache are unchanged.
C10_AddWithoutParametersFails ==
    [][ (/\ lastOp'.name = "add_factor_type"
         /\ get_w_dim(ftype_w, lastOp'.ftype) <= 0)
        => /\ lastOp'.status = "fail"
           /\ UNCHANGED <<m_factor_types, m_w_map, m_w_cache, ftype_w>> ]_vars

\* C10 witness: tZ (w_dim = 0) was refused by a model that holds types
C10_Witness ==
    /\ lastOp.name = "add_factor_type"
    /\ lastOp.ftype = "tZ"
    /\ lastOp.status = "fail"
    /\ Len(m_factor_types) > 0
    /\ Len(m_w_cache) > 0

(* ---------------------------- argmax claims ---------------------------- *)

\* the energy of labelling y of sample feat_idx under the weights the factor
\* types hold, before any loss augmentation
PlainEnergy(feat_idx, y) ==
    evaluate_energy(Samples[feat_idx],
                    compute_energies(Samples[feat_idx], ftype_w), y)

\* the last call was an argmax that returned a result set
ArgmaxReturned == lastOp.name = "argmax" /\ lastOp.status = "ok"

\* how often argmax called loss_augmentation
LossAugmentations ==
    Len(SelectSeq(ret.log, LAMBDA c : c = "loss_augmentation"))

\* C4 as claimed: for either value of training the score of a successful
\* argmax is loss(y_truth, y_star) - E(x, y_star) + E(x, y_truth).
C4_ScoreIsMaxOracle ==
    ArgmaxReturned =>
        ret.score = delta_loss(Labels[lastOp.feat_idx], ret.argmax)
                    - PlainEnergy(lastOp.feat_idx, ret.argmax)
                    + PlainEnergy(lastOp.feat_idx, Labels[lastOp.feat_idx].data)

\* C4 as amended: when training the score of a successful argmax is
\* loss(y_truth, y_star) - E(x, y_star) + E(x, y_truth); when not training
\* it is E(x, y_truth) - E(x, y_star), without the loss.
C4_ScoreIsMaxOracleWhenTraining ==
    ArgmaxReturned =>
        ret.score = (IF lastOp.training
                     THEN delta_loss(Labels[lastOp.feat_idx], ret.argmax)
                     ELSE 0)
                    - PlainEnergy(lastOp.feat_idx, ret.argmax)
                    + PlainEnergy(lastOp.feat_idx, Labels[lastOp.feat_idx].data)

\* C4 witness: a training call whose argmax differs from the ground truth,
\* at a loss, on energies that tell the two labellings apart
C4_Witness ==
    /\ ArgmaxReturned
    /\ lastOp.training
    /\ ret.argmax # Labels[lastOp.feat_idx].data
    /\ ret.delta > 0
    /\ PlainEnergy(lastOp.feat_idx, ret.argmax)
          # PlainEnergy(lastOp.feat_idx, Labels[lastOp.feat_idx].data)

\* C5: argmax with training = false never calls loss_augmentation, so that
\* inference and the energy of the predicted labelling use the energies as
\* computed; with training = true it calls loss_augmentation exactly once.
C5_LossAugmentationOnlyWhenTraining ==
    lastOp.name = "argmax" =>
        /\ ~lastOp.training => LossAugmentations = 0
        /\ (~lastOp.training /\ lastOp.status = "ok") =>
              /\ ret.score = PlainEnergy(lastOp.feat_idx, Labels[lastOp.feat_idx].data)
                             - PlainEnergy(lastOp.feat_idx, ret.argmax)
              /\ ret.argmax \in
                    map_inference(Samples[lastOp.feat_idx],
                                  compute_energies(Samples[lastOp.feat_idx], ftype_w),
                                  m_inf_type)
        /\ (lastOp.training /\ lastOp.status = "ok") => LossAugmentations = 1

\* C5 witness: a prediction call (training = false) returned a labelling
\* other than the ground truth
C5_Witness ==
    /\ ArgmaxReturned
    /\ ~lastOp.training
    /\ ret.argmax # Labels[lastOp.feat_idx].data

(* ------------------------ init_primal_opt claims ----------------------- *)

\* the last call was an init_primal_opt
PrimalCalled == lastOp.name = "init_primal_opt"

\* the global slots of the type with this id, in the order of its weights
SlotsOfId(id) ==
    SelectSeq(Vec([i \in 1 .. Len(m_w_map) |-> i]), LAMBDA i : m_w_map[i] = id)

\* the global slots of registered type fi
SlotsOf(fi) == SlotsOfId(get_type_id(m_factor_types[fi]))

\* C11: in every inference mode other than GRAPH_CUT init_primal_opt leaves
\* lb of length get_dim() with every entry -inf and ub of length get_dim()
\* with every entry +inf.
C11_UnconstrainedOutsideGraphCut ==
    (PrimalCalled /\ m_inf_type # "GRAPH_CUT") =>
        /\ Len(ret.lb) = get_dim(m_w_map)
        /\ Len(ret.ub) = get_dim(m_w_map)
        /\ \A i \in 1 .. Len(ret.lb) : ret.lb[i] = NegInf
        /\ \A i \in 1 .. Len(ret.ub) : ret.ub[i] = PosInf

\* C12: in GRAPH_CUT mode a successful init_primal_opt fixes slots 0 and 3
\* of every registered [2,2] type with w_dim 4 at 0, bounds its slots 1 and
\* 2 below by 0 and leaves them unbounded above, and leaves every slot of
\* every other type at -inf / +inf; with a registered [2,2] type whose
\* w_dim is not 4 the call fails.
C12_GraphCutBounds ==
    (PrimalCalled /\ m_inf_type = "GRAPH_CUT") =>
        /\ lastOp.status = "fail" <=>
              \E fi \in 1 .. Len(m_factor_types) :
                  /\ get_cardinalities(m_factor_types[fi]) = <<2, 2>>
                  /\ Len(ftype_w[m_factor_types[fi]]) # 4
        /\ lastOp.status = "ok" =>
              /\ Len(ret.lb) = get_dim(m_w_map)
              /\ Len(ret.ub) = get_dim(m_w_map)
              /\ \A fi \in 1 .. Len(m_factor_types) :
                    LET s == SlotsOf(fi)
                    IN  IF get_cardinalities(m_factor_types[fi]) = <<2, 2>>
                        THEN /\ ret.lb[s[1]] = Zero /\ ret.ub[s[1]] = Zero
                             /\ ret.lb[s[4]] = Zero /\ ret.ub[s[4]] = Zero
                             /\ ret.lb[s[2]] = Zero /\ ret.ub[s[2]] = PosInf
                             /\ ret.lb[s[3]] = Zero /\ ret.ub[s[3]] = PosInf
                        ELSE \A k \in 1 .. Len(s) :
                                ret.lb[s[k]] = NegInf /\ ret.ub[s[k]] = PosInf

\* C12 witness: the bounds of a model that holds tA in slots 0..1 and the
\* pairwise binary tB in slots 2..5
C12_Witness ==
    /\ PrimalCalled
    /\ m_inf_type = "GRAPH_CUT"
    /\ lastOp.status = "ok"
    /\ m_factor_types = <<"tA", "tB">>
    /\ ret.lb = <<NegInf, NegInf, Zero, Zero, Zero, Zero>>
    /\ ret.ub = <<PosInf, PosInf, Zero, PosInf, PosInf, Zero>>

(* --------------------------- delta_loss claims ------------------------- *)

\* the sum of y1's loss weights over the first n positions where y1 and y2
\* differ
RECURSIVE MismatchWeight(_, _, _)
MismatchWeight(y1, y2, n) ==
    IF n = 0 THEN 0
    ELSE MismatchWeight(y1, y2, n - 1)
         + (IF y1.data[n] # y2.data[n] THEN y1.loss_weights[n] ELSE 0)

\* positions where the two state sequences differ
Mismatches(y1, y2) == {si \in 1 .. Len(y1.data) : y1.data[si] # y2.data[si]}

\* every position carries loss weight c
UniformWeights(y, c) == \A si \in 1 .. Len(y.loss_weights) : y.loss_weights[si] = c

\* C13: on sequences of equal length delta_loss(y_truth, y_pred) is the sum
\* of y_truth's loss weights over the positions where they differ; it is 0
\* for y against itself, the Hamming distance when all weights are 1, and
\* the same in both argument orders when both labels carry the same uniform
\* weights; on sequences of different lengths the call fails.
C13_DeltaLoss ==
    lastOp.name = "delta_loss" =>
        /\ Len(ret.y1.data) # Len(ret.y2.data) <=> lastOp.status = "fail"
        /\ lastOp.status = "ok" =>
              /\ ret.loss = MismatchWeight(ret.y1, ret.y2, Len(ret.y1.data))
              /\ ret.y1 = ret.y2 => ret.loss = 0
              /\ UniformWeights(ret.y1, 1) =>
                    ret.loss = Cardinality(Mismatches(ret.y1, ret.y2))
              /\ (\E c \in WVals : UniformWeights(ret.y1, c) /\ UniformWeights(ret.y2, c)) =>
                    ret.loss = do_delta_loss(ret.y2, ret.y1).loss

\* C13 witness: two sequences that differ in both positions, compared under
\* weights that are not uniform
C13_Witness ==
    /\ lastOp.name = "delta_loss"
    /\ lastOp.status = "ok"
    /\ ret.y1 = [data |-> <<0, 1>>, loss_weights |-> <<1, 0>>]
    /\ ret.y2.data = <<1, 0>>
    /\ ret.loss = 1

(* -------------------- get_joint_feature_vector claims ------------------ *)

\* the pairs <<factor, data position>> of sample fg that hit global slot j
\* under the assignment y
Hits(fg, y, j) ==
    {h \in UNION {{<<fi, k>> : k \in 1 .. Len(fg.factors[fi].data)} :
                     fi \in 1 .. Len(fg.factors)} :
        LET fac == fg.factors[h[1]]
            S   == SlotsOfId(get_type_id(fac.ftype))
            e   == index_from_universe_assignment(fac.ftype, y, fac.vars)
        IN  S[e * Len(fac.data) + h[2]] = j}

\* the sum of the data entries d[k] over a set of hits
RECURSIVE HitSum(_, _)
HitSum(fg, hits) ==
    IF hits = {} THEN 0
    ELSE LET h == CHOOSE x \in hits : TRUE
         IN  fg.factors[h[1]].data[h[2]] + HitSum(fg, hits \ {h})

\* C14: a successful get_joint_feature_vector(i, y) returns a vector of
\* length get_dim() whose slot S[e*|d|+k] holds minus the sum of d[k] over
\* all factors hitting that slot, every other slot 0 (one factor of a type
\* with w_dim 4, data [1,1] and assignment index 1 gives -1 at slots 2 and
\* 3); the call changes no model state.
C14_JointFeatureVector ==
    [][ lastOp'.name = "get_joint_feature_vector" =>
          /\ UNCHANGED <<m_factor_types, m_w_map, m_w_cache, ftype_w, m_inf_type>>
          /\ lastOp'.status = "ok" =>
                LET fg == JfvSamples[lastOp'.feat_idx]
                IN  /\ Len(ret'.psi) = get_dim(m_w_map)
                    /\ \A j \in 1 .. get_dim(m_w_map) :
                          ret'.psi[j] = 0 - HitSum(fg, Hits(fg, ret'.y, j))
                    /\ (m_factor_types = <<"tD">> /\ lastOp'.feat_idx = 3
                            /\ ret'.y = <<1>>) =>
                          ret'.psi = <<0, 0, -1, -1>>
      ]_vars

\* sample 1 under the assignment [0,0]: its two tA factors hit the same
\* slot, its tB factor another one
C14_SharedSlotReached ==
    /\ lastOp.name = "get_joint_feature_vector"
    /\ lastOp.status = "ok"
    /\ lastOp.feat_idx = 1
    /\ m_factor_types = <<"tA", "tB">>
    /\ ret.y = <<0, 0>>
    /\ ret.psi = <<-2, 0, -1, 0, 0, 0>>

\* C14 witness: one tD factor with data [1,1] under the assignment with
\* index 1
C14_Witness ==
    /\ lastOp.name = "get_joint_feature_vector"
    /\ m_factor_types = <<"tD">>
    /\ lastOp.feat_idx = 3
    /\ ret.y = <<1>>
    /\ ret.psi = <<0, 0, -1, -1>>

(* ---------------------- weight propagation claims --------------------- *)

\* C15: in every state w_to_fparams(fparams_to_w()) with nothing in between
\* is a no-op: the cache after the pair is the vector fparams_to_w returned
\* and no type's local weights change.
C15_CollectThenDistribute ==
    \A g \in WVals :
        LET c == do_fparams_to_w(m_factor_types, m_w_map, ftype_w, m_w_cache, g)
            d == do_w_to_fparams(m_factor_types, m_w_map, ftype_w, c.cache, c.ret)
        IN  c.ok => /\ d.status # "fail"
                    /\ d.cache = c.ret
                    /\ d.fw = ftype_w

\* C15 witness: the pair applies to a model whose cache went stale by a
\* removal after its weights had been replaced
C15_Witness ==
    /\ m_factor_types = <<"tB">>
    /\ ftype_w["tB"] # initial_w("tB")
    /\ Len(m_w_cache) > Len(m_w_map)
    /\ \E i \in 1 .. Len(m_w_map) : m_w_cache[i] # ftype_w["tB"][i]

\* w gathered at the global slots of registered type fi
GatheredAt(w, fi) == Vec([k \in 1 .. Len(SlotsOf(fi)) |-> w[SlotsOf(fi)[k]]])

\* C17: w_to_fparams(w) with w element-wise equal to the cache makes no
\* set_w call and leaves the cache as it is; with a w that differs and has
\* the cache's length every registered type receives exactly one set_w,
\* whose value is w gathered at that type's slots.
C17_DirtyCheckAndPropagation ==
    [][ lastOp'.name = "w_to_fparams" =>
          LET w == lastOp'.w
          IN  /\ w = m_w_cache =>
                    /\ ret' = <<>>
                    /\ UNCHANGED <<m_w_cache, ftype_w>>
              /\ (w # m_w_cache /\ Len(w) = Len(m_w_cache)) =>
                    /\ Len(ret') = Len(m_factor_types)
                    /\ \A fi \in 1 .. Len(m_factor_types) :
                          /\ ret'[fi].ftype = m_factor_types[fi]
                          /\ ret'[fi].w = GatheredAt(w, fi)
                          /\ ftype_w'[m_factor_types[fi]] = GatheredAt(w, fi)
      ]_vars

\* C17 witness: a propagation that changed the weights of two registered
\* types
C17_Witness ==
    /\ lastOp.name = "w_to_fparams"
    /\ lastOp.status = "ok"
    /\ m_factor_types = <<"tA", "tB">>
    /\ Len(ret) = 2
    /\ ret[1].w # initial_w("tA")
    /\ ret[2].w # initial_w("tB")

\* C19: after successful calls a w_to_fparams(w) call that fails leaves the
\* cache and every registered type's local weights exactly as they were.
C19_FailedPropagationChangesNothing ==
    [][ (no_failure /\ lastOp'.name = "w_to_fparams" /\ lastOp'.status = "fail") =>
          UNCHANGED <<m_w_cache, ftype_w>>
      ]_vars

\* C20: in every state reached by successful calls, for every registered
\* type t and every i < w_dim(t) the cache at get_params_mapping(t)[i]
\* equals element i of t's local weights.
C20_CacheAgreesWithTypes ==
    no_failure =>
        \A fi \in 1 .. Len(m_factor_types) :
            LET ft     == m_factor_types[fi]
                fw_map == get_params_mapping(m_w_map, get_type_id(ft))
            IN  \A i \in 1 .. get_w_dim(ftype_w, ft) :
                    m_w_cache[fw_map[i]] = ftype_w[ft][i]

(* --------------------------- argmax call order ------------------------- *)

\* the calls argmax made on its collaborators, without its own
\* get_joint_feature_vector
ExternalSteps == SelectSeq(ret.log, LAMBDA c : c # "get_joint_feature_vector")

\* positions of a call in the log of the last argmax
Positions(c) == {k \in 1 .. Len(ret.log) : ret.log[k] = c}

\* C16: every successful argmax performs, in this order, connect_components
\* and the tree check (in the mode that requires a tree), the distribution
\* of w, compute_energies, the ground-truth energy evaluation, only when
\* training loss_augmentation, MAP inference, and the predicted label's
\* energy evaluation and loss; no step is skipped or reordered, and
\* compute_energies is never called after loss_augmentation.
C16_ArgmaxCallOrder ==
    ArgmaxReturned =>
        /\ ExternalSteps =
              <<"connect_components">>
              \o (IF m_inf_type = "TREE_MAX_PROD" THEN <<"is_tree_graph">> ELSE <<>>)
              \o <<"w_to_fparams", "compute_energies", "evaluate_energy">>
              \o (IF lastOp.training THEN <<"loss_augmentation">> ELSE <<>>)
              \o <<"inference", "evaluate_energy", "delta_loss">>
        /\ \A a \in Positions("loss_augmentation"), c \in Positions("compute_energies") :
              c < a

\* C16 witness: a training call in the mode that requires a tree, which
\* makes every one of the calls
C16_Witness ==
    /\ ArgmaxReturned
    /\ lastOp.training
    /\ m_inf_type = "TREE_MAX_PROD"
    /\ Len(ExternalSteps) = 9
    /\ Positions("loss_augmentation") # {}

\* calls that argmax makes only after the tree check
AfterTreeCheck == {"w_to_fparams", "compute_energies", "loss_augmentation", "inference"}

\* C18: in mode TREE_MAX_PROD an argmax on a graph that is not a tree fails
\* before any weights are distributed: the cache and every type's local
\* weights are unchanged and compute_energies, loss_augmentation and MAP
\* inference are not invoked; in every other mode the tree check is not
\* applied.
C18_TreeCheckBeforeWeights ==
    [][ lastOp'.name = "argmax" =>
          LET fg == Samples[lastOp'.feat_idx]
          IN  /\ (m_inf_type = "TREE_MAX_PROD" /\ ~is_tree_graph(fg)) =>
                    /\ lastOp'.status = "fail"
                    /\ UNCHANGED <<m_w_cache, ftype_w>>
                    /\ \A k \in 1 .. Len(ret'.log) : ret'.log[k] \notin AfterTreeCheck
              /\ m_inf_type # "TREE_MAX_PROD" =>
                    /\ \A k \in 1 .. Len(ret'.log) : ret'.log[k] # "is_tree_graph"
                    /\ \E k \in 1 .. Len(ret'.log) : ret'.log[k] = "w_to_fparams"
      ]_vars

\* C18 witness: the failed call on the cyclic sample 2, with a w that the
\* call would otherwise have distributed over tA and tB
C18_Witness ==
    /\ lastOp.name = "argmax"
    /\ lastOp.status = "fail"
    /\ m_inf_type = "TREE_MAX_PROD"
    /\ lastOp.feat_idx = 2
    /\ m_factor_types = <<"tA", "tB">>
    /\ Len(lastOp.w) = Len(m_w_cache)
    /\ lastOp.w # m_w_cache

\* in a mode without tree check the call on the cyclic sample 2 returns
C18_CyclicSampleAccepted ==
    /\ ArgmaxReturned
    /\ m_inf_type = "GEMPLP"
    /\ lastOp.feat_idx = 2

====
